---- MODULE Spec2Model ----
(***************************************************************************)
(* A model of ocrlib/nlbin.py: the page validator check_page and the       *)
(* binarization pipeline main -> nlbin -> normalize_raw_image ->           *)
(* estimate_local_whitelevel -> estimate_skew -> estimate_thresholds.      *)
(* Three specifications share the variables: SpecCheck (check_page on a    *)
(* page), Spec (one run of main) and SpecPar (two invocations of nlbin     *)
(* interleaved over a heap of arrays).                                     *)
(*                                                                         *)
(* Samples of float arrays are exact extended rationals <<n, d>>:          *)
(*   d > 0        the finite value n/d in lowest terms                     *)
(*   <<0, 0>>     NaN,   <<1, 0>> +inf,   <<-1, 0>> -inf                   *)
(* A 2-D array is a sequence of rows, each a sequence of samples.          *)
(***************************************************************************)
EXTENDS Integers, Sequences, FiniteSets

VARIABLES page, outcome,
          pc, raw, args, image, flat, estimates, angle, deskewed, lo, hi, ret,
          result, err, raised, calls,
          globals, heap, inv, prim

vars == <<page, outcome, pc, raw, args, image, flat, estimates, angle, deskewed,
          lo, hi, ret, result, err, raised, calls, globals, heap, inv, prim>>

\* the state of one run of main
mainVars == <<page, outcome, pc, raw, args, image, flat, estimates, angle, deskewed,
              lo, hi, ret, result, err, raised, calls>>

\* the state of several invocations of nlbin in one process
parVars == <<globals, heap, inv, prim>>

(***************************************************************************)
(* Extended rational arithmetic (the float64 operations of numpy).         *)
(***************************************************************************)
Abs(x) == IF x < 0 THEN -x ELSE x

Sgn(x) == IF x < 0 THEN -1 ELSE IF x > 0 THEN 1 ELSE 0

RECURSIVE GCD(_, _)
GCD(a, b) == IF b = 0 THEN a ELSE GCD(b, a % b)

Reduce(n, d, g) == <<n \div g, d \div g>>

Q(n, d) ==
    IF d = 0 THEN <<Sgn(n), 0>>
    ELSE IF d < 0 THEN Reduce(-n, -d, GCD(Abs(n), Abs(d)))
    ELSE Reduce(n, d, GCD(Abs(n), Abs(d)))

NaN == <<0, 0>>

Zero == <<0, 1>>

One == <<1, 1>>

IsFinite(x) == x[2] # 0

Neg(x) == <<-x[1], x[2]>>

Add(a, b) ==
    IF a = NaN \/ b = NaN THEN NaN
    ELSE IF IsFinite(a) /\ IsFinite(b) THEN Q(a[1] * b[2] + b[1] * a[2], a[2] * b[2])
    ELSE IF IsFinite(a) THEN b
    ELSE IF IsFinite(b) THEN a
    ELSE IF a = b THEN a ELSE NaN

Sub(a, b) == Add(a, Neg(b))

Mul(a, b) == Q(a[1] * b[1], a[2] * b[2])

Div(a, b) ==
    IF b[1] < 0 THEN Q(-(a[1] * b[2]), -(a[2] * b[1]))
    ELSE Q(a[1] * b[2], a[2] * b[1])

Lt(a, b) ==
    IF a = NaN \/ b = NaN THEN FALSE
    ELSE IF ~IsFinite(a) /\ ~IsFinite(b) THEN a[1] < b[1]
    ELSE a[1] * b[2] < b[1] * a[2]

Le(a, b) == a # NaN /\ b # NaN /\ ~Lt(b, a)

FMin(a, b) == IF a = NaN \/ b = NaN THEN NaN ELSE IF Lt(b, a) THEN b ELSE a

FMax(a, b) == IF a = NaN \/ b = NaN THEN NaN ELSE IF Lt(a, b) THEN b ELSE a

InUnit(x) == Le(Zero, x) /\ Le(x, One)

(***************************************************************************)
(* Array helpers.                                                          *)
(***************************************************************************)
Height(a) == Len(a)

Width(a) == IF Len(a) = 0 THEN 0 ELSE Len(a[1])

Samples(a) == {a[i][j] : i \in 1..Height(a), j \in 1..Width(a)}

Arrays(h, w, S) == [1..h -> [1..w -> S]]

\* a - c, c - a and a / c for a scalar c
SubAll(a, c) == [i \in 1..Height(a) |-> [j \in 1..Width(a) |-> Sub(a[i][j], c)]]

SubFrom(c, a) == [i \in 1..Height(a) |-> [j \in 1..Width(a) |-> Sub(c, a[i][j])]]

DivAll(a, c) == [i \in 1..Height(a) |-> [j \in 1..Width(a) |-> Div(a[i][j], c)]]

\* a[r0:r1, c0:c1] with python's half-open, zero-based bounds
Slice(a, r0, r1, c0, c1) ==
    [i \in 1..(r1 - r0) |-> [j \in 1..(c1 - c0) |-> a[r0 + i][c0 + j]]]

RECURSIVE AMinOf(_)
MinStep(x, S) == IF S = {x} THEN x ELSE FMin(x, AMinOf(S \ {x}))

AMinOf(S) == MinStep(CHOOSE y \in S : TRUE, S)

RECURSIVE AMaxOf(_)
MaxStep(x, S) == IF S = {x} THEN x ELSE FMax(x, AMaxOf(S \ {x}))

AMaxOf(S) == MaxStep(CHOOSE y \in S : TRUE, S)

amin(a) == AMinOf(Samples(a))

amax(a) == AMaxOf(Samples(a))


(***************************************************************************)
(* check_page.  A page is described by its shape (a sequence of 1 to 4     *)
(* dimensions) and the histogram of its gray levels: mean and median       *)
(* depend on the samples only through the histogram.                       *)
(***************************************************************************)
MinPageSize == 600

MaxPageSize == 10000

Levels == 0..2

RECURSIVE Prod(_)
Prod(s) == IF s = <<>> THEN 1 ELSE Head(s) * Prod(Tail(s))

HistSize(h) == h[0] + h[1] + h[2]

HistSum(h) == h[1] + 2 * h[2]

\* the number of samples with a level of at most v
UpTo(h, v) == h[0] + (IF v >= 1 THEN h[1] ELSE 0) + (IF v >= 2 THEN h[2] ELSE 0)

\* the k-th (zero-based) sample in ascending order
KthSample(h, k) ==
    CHOOSE v \in Levels : k < UpTo(h, v) /\ \A u \in Levels : u < v => k >= UpTo(h, u)

\* twice np.median: the sum of the two middle samples
Median2(h) == KthSample(h, (HistSize(h) - 1) \div 2) + KthSample(h, HistSize(h) \div 2)

\* np.mean(image) < np.median(image), cross-multiplied
MeanBelowMedian(h) == 2 * HistSum(h) < Median2(h) * HistSize(h)

SizeErrors == {"image not tall enough for a page image",
               "image too tall for a page image",
               "image too narrow for a page image",
               "line too wide for a page image"}

\* check_page with h <= 600 in place of h < 600
check_page_le600(p) ==
    IF Len(p.shape) = 3 THEN "input image is color image"
    ELSE IF MeanBelowMedian(p.hist) THEN "image may be inverted"
    ELSE IF Len(p.shape) # 2 THEN "unpack"
    ELSE IF p.shape[1] <= MinPageSize THEN "image not tall enough for a page image"
    ELSE IF p.shape[1] > MaxPageSize THEN "image too tall for a page image"
    ELSE IF p.shape[2] < MinPageSize THEN "image too narrow for a page image"
    ELSE IF p.shape[2] > MaxPageSize THEN "line too wide for a page image"
    ELSE "none"

\* check_page with the orientation test moved before the color test
check_page_orientation_first(p) ==
    IF MeanBelowMedian(p.hist) THEN "image may be inverted"
    ELSE IF Len(p.shape) = 3 THEN "input image is color image"
    ELSE IF Len(p.shape) # 2 THEN "unpack"
    ELSE IF p.shape[1] < MinPageSize THEN "image not tall enough for a page image"
    ELSE IF p.shape[1] > MaxPageSize THEN "image too tall for a page image"
    ELSE IF p.shape[2] < MinPageSize THEN "image too narrow for a page image"
    ELSE IF p.shape[2] > MaxPageSize THEN "line too wide for a page image"
    ELSE "none"

\* check_page with mean <= median in place of mean < median
check_page_mean_le(p) ==
    IF Len(p.shape) = 3 THEN "input image is color image"
    ELSE IF 2 * HistSum(p.hist) <= Median2(p.hist) * HistSize(p.hist)
         THEN "image may be inverted"
    ELSE IF Len(p.shape) # 2 THEN "unpack"
    ELSE IF p.shape[1] < MinPageSize THEN "image not tall enough for a page image"
    ELSE IF p.shape[1] > MaxPageSize THEN "image too tall for a page image"
    ELSE IF p.shape[2] < MinPageSize THEN "image too narrow for a page image"
    ELSE IF p.shape[2] > MaxPageSize THEN "line too wide for a page image"
    ELSE "none"

\* The message of the ValueError check_page raises, "none" when it returns.
\* "unpack" is the ValueError of `h, w = image.shape` on a shape that has
\* not exactly two entries.
check_page(p) ==
    IF Len(p.shape) = 3 THEN "input image is color image"
    ELSE IF MeanBelowMedian(p.hist) THEN "image may be inverted"
    ELSE IF Len(p.shape) # 2 THEN "unpack"
    ELSE IF p.shape[1] < MinPageSize THEN "image not tall enough for a page image"
    ELSE IF p.shape[1] > MaxPageSize THEN "image too tall for a page image"
    ELSE IF p.shape[2] < MinPageSize THEN "image too narrow for a page image"
    ELSE IF p.shape[2] > MaxPageSize THEN "line too wide for a page image"
    ELSE "none"

Dims == {500, 599, 600, 800, 10000, 10001}

PageShapes ==
    {<<h, w>> : h \in Dims, w \in Dims}
    \cup {<<h, w, 3>> : h \in {500, 800}, w \in {800, 10001}}
    \cup {<<2, h, w, 3>> : h \in {500, 800}, w \in {800}}
    \cup {<<h>> : h \in {800}}

\* uniform page, dark text on light, light text on dark, half and half,
\* and a three-level page
PageHists(n) ==
    { [v \in Levels |-> IF v = 2 THEN n ELSE 0],
      [v \in Levels |-> IF v = 2 THEN n - 1 ELSE IF v = 0 THEN 1 ELSE 0],
      [v \in Levels |-> IF v = 0 THEN n - 1 ELSE IF v = 2 THEN 1 ELSE 0],
      [v \in Levels |-> IF v = 0 THEN n \div 2 ELSE IF v = 2 THEN n - (n \div 2) ELSE 0],
      [v \in Levels |-> IF v = 1 THEN n - 2 ELSE 1] }

Pages == UNION {{[shape |-> s, hist |-> h] : h \in PageHists(Prod(s))} : s \in PageShapes}

NoPage == [shape |-> <<>>, hist |-> [v \in Levels |-> 0]]

(***************************************************************************)
(* Numeric helpers of the pipeline.                                        *)
(***************************************************************************)
RECURSIVE SumSeq(_)
SumSeq(s) == IF s = <<>> THEN Zero ELSE Add(Head(s), SumSeq(Tail(s)))

\* int(x) for a finite x >= 0
Trunc(x) == x[1] \div x[2]

\* python 3 round(): to the nearest integer, a half to the even one (x >= 0)
Round(x) ==
    IF 2 * (x[1] % x[2]) < x[2] THEN Trunc(x)
    ELSE IF 2 * (x[1] % x[2]) > x[2] THEN Trunc(x) + 1
    ELSE IF Trunc(x) % 2 = 0 THEN Trunc(x) ELSE Trunc(x) + 1

RECURSIVE Insert(_, _)
Insert(x, s) ==
    IF s = <<>> THEN <<x>>
    ELSE IF Le(x, Head(s)) THEN <<x>> \o s
    ELSE <<Head(s)>> \o Insert(x, Tail(s))

RECURSIVE SortSamples(_)
SortSamples(s) == IF s = <<>> THEN <<>> ELSE Insert(Head(s), SortSamples(Tail(s)))

\* np.mean(a, axis=1)
RowMeans(a) == [i \in 1..Height(a) |-> Div(SumSeq(a[i]), <<Width(a), 1>>)]

Sq(x) == Mul(x, x)

MeanSqDev(xs, mu) ==
    Div(SumSeq([i \in 1..Len(xs) |-> Sq(Sub(xs[i], mu))]), <<Len(xs), 1>>)

\* np.var of a vector
Var(xs) == MeanSqDev(xs, Div(SumSeq(xs), <<Len(xs), 1>>))

\* np.linspace(-ma, ma, n) for n >= 1
linspace(ma, n) ==
    IF n = 1 THEN <<Neg(ma)>>
    ELSE [i \in 1..n |->
            Add(Neg(ma), Div(Mul(<<i - 1, 1>>, Mul(<<2, 1>>, ma)), <<n - 1, 1>>))]

\* the samples of a in row-major order at the positions of the mask
RECURSIVE Ravel(_, _, _)
Ravel(a, mask, k) ==
    IF k > Height(a) * Width(a) THEN <<>>
    ELSE (IF <<((k - 1) \div Width(a)) + 1, ((k - 1) % Width(a)) + 1>> \in mask
          THEN <<a[((k - 1) \div Width(a)) + 1][((k - 1) % Width(a)) + 1]>>
          ELSE <<>>) \o Ravel(a, mask, k + 1)

\* the value at the fractional index idx of a sorted vector
Interpolate(sorted, idx, i) ==
    IF <<i, 1>> = idx THEN sorted[i + 1]
    ELSE Div(Add(Mul(sorted[i + 1], Sub(<<i + 1, 1>>, idx)),
                 Mul(sorted[i + 2], Sub(idx, <<i, 1>>))),
             Add(Sub(<<i + 1, 1>>, idx), Sub(idx, <<i, 1>>)))

PercentileIndex(n, per) == Mul(Div(per, <<100, 1>>), <<n - 1, 1>>)

\* scoreatpercentile with interpolation_method="lower"
scoreatpercentile_lower(a, per) ==
    IF Len(a) = 0 THEN NaN
    ELSE SortSamples(a)[Trunc(PercentileIndex(Len(a), per)) + 1]

\* scipy.stats.scoreatpercentile(a, per), linear interpolation ("fraction");
\* NaN for an empty a
scoreatpercentile(a, per) ==
    IF Len(a) = 0 THEN NaN
    ELSE Interpolate(SortSamples(a), PercentileIndex(Len(a), per),
                     Trunc(PercentileIndex(Len(a), per)))

\* np.clip(x, 0, 1) = minimum(maximum(x, 0), 1): a NaN stays a NaN
Clip01(x) == FMin(FMax(x, Zero), One)


(***************************************************************************)
(* The stages of nlbin.  The scipy.ndimage primitives (zoom, percentile    *)
(* filter, rotate, gaussian filter, binary dilation) are external: the     *)
(* values they produce are chosen by the actions from bounded families,    *)
(* and the stage operators take the chosen value as a parameter.           *)
(***************************************************************************)
Raised(msg) == [err |-> msg, image |-> <<>>]

Returned(im) == [err |-> "none", image |-> im]

\* the rest of normalize_raw_image for image = raw - np.amin(raw)
NormalizeShifted(im0) ==
    IF amax(im0) # NaN /\ amax(im0) = amin(im0) THEN Raised("image is empty")
    ELSE Returned(DivAll(im0, amax(im0)))

\* normalize_raw_image dividing by the maximum of raw
normalize_by_raw_max(r) == Returned(DivAll(SubAll(r, amin(r)), amax(r)))

\* normalize_raw_image without the test for an empty image
normalize_unchecked(r) == Returned(DivAll(SubAll(r, amin(r)), amax(SubAll(r, amin(r)))))

\* err is the message of the ValueError raised, "none" when image is returned
normalize_raw_image(r) == NormalizeShifted(SubAll(r, amin(r)))

\* the output size of interpolation.zoom along one axis: int(round(d * zoom))
ZoomDim(d, z) == Round(Mul(<<d, 1>>, z))

\* the shape of m after zoom(zoom(image, zoom), 1.0 / zoom)
BackgroundShape(im, z) ==
    <<ZoomDim(ZoomDim(Height(im), z), Div(One, z)),
      ZoomDim(ZoomDim(Width(im), z), Div(One, z))>>

Min2(a, b) == IF a < b THEN a ELSE b

Max2(a, b) == IF a < b THEN b ELSE a

\* estimate_local_whitelevel without np.clip
whitelevel_unclipped(im, m) ==
    [i \in 1..Min2(Height(im), Height(m)) |->
        [j \in 1..Min2(Width(im), Width(m)) |-> Add(Sub(im[i][j], m[i][j]), One)]]

\* flat = np.clip(image[:w, :h] - m[:w, :h] + 1, 0, 1) for the background m
estimate_local_whitelevel(im, m) ==
    [i \in 1..Min2(Height(im), Height(m)) |->
        [j \in 1..Min2(Width(im), Width(m)) |->
            Clip01(Add(Sub(im[i][j], m[i][j]), One))]]

\* int(bignore * d)
Border(b, d) == Trunc(Mul(b, <<d, 1>>))

\* flat[o0 : d0 - o0, o1 : d1 - o1]
Crop(a, b) ==
    Slice(a, Border(b, Height(a)), Height(a) - Border(b, Height(a)),
          Border(b, Width(a)), Width(a) - Border(b, Width(a)))

\* np.linspace(-ma, ma, ms + 1) with ms = int(2 * maxskew * skewsteps)
SkewAngles(maxskew, skewsteps) ==
    linspace(maxskew, Trunc(Mul(Mul(<<2, 1>>, maxskew), <<skewsteps, 1>>)) + 1)

ShiftDown(a) ==
    [i \in 1..Height(a) |-> [j \in 1..Width(a) |-> IF i = 1 THEN Zero ELSE a[i - 1][j]]]

ShiftRight(a) ==
    [i \in 1..Height(a) |-> [j \in 1..Width(a) |-> IF j = 1 THEN Zero ELSE a[i][j - 1]]]

\* interpolation.rotate(a, ang, mode="constant") on an array this small: the
\* k-th resampling of the family (unchanged, moved at an edge; samples from
\* outside are cval = 0).  A rotation by 0 changes nothing.
rotate(a, ang, k) ==
    IF ang = Zero \/ k = 1 THEN a
    ELSE IF Height(a) > 1 THEN ShiftDown(a)
    ELSE ShiftRight(a)

EstimateSet(es) == {es[i] : i \in 1..Len(es)}

\* the greatest tuple of S in python's (lexicographic) order
GreatestTuple(S) ==
    CHOOSE e \in S : \A f \in S : f = e \/ Lt(f[1], e[1]) \/ (f[1] = e[1] /\ Lt(f[2], e[2]))

\* the first tuple of S with the greatest first entry
FirstGreatest(S) ==
    CHOOSE e \in S : \A f \in S : f = e \/ Lt(f[1], e[1]) \/ (f[1] = e[1] /\ Lt(e[2], f[2]))

\* max() comparing the variances only: the first maximum in list order
MaxEstimate_first(es) == FirstGreatest(EstimateSet(es))

\* python's max() of the list of (v, a) tuples
MaxEstimate(es) == GreatestTuple(EstimateSet(es))

\* the variance of the row means of the image rotated by ang
SkewScore(im, ang, k) == Var(RowMeans(rotate(im, ang, k)))

\* the list estimates of estimate_skew_angle; ks[i] is the resampling rotate
\* uses for the i-th candidate angle
SkewEstimates(im, angles, ks) ==
    [i \in 1..Len(angles) |-> <<SkewScore(im, angles[i], ks[i]), angles[i]>>]

\* estimate_skew_angle for the list of estimates: _, a = max(estimates)
estimate_skew_angle(es) == MaxEstimate(es)[2]

\* inversion against the white level 1: flat = 1 - flat
Invert_white(a) == SubFrom(One, a)

\* flat = np.amax(flat) - flat
Invert(a) == SubFrom(amax(a), a)

\* flat -= np.amin(flat)
SubMin(a) == SubAll(a, amin(a))

Positions(a) == (1..Height(a)) \X (1..Width(a))

\* the side int(e * 50) of the structuring elements of the two dilations
StructureSize(e) == Trunc(Mul(e, <<50, 1>>))

Percentiles(vals, lop, hip) ==
    [err |-> "none", lo |-> scoreatpercentile(vals, lop), hi |-> scoreatpercentile(vals, hip)]

\* est is the cropped region, mask the dilated variance mask v (used only
\* when escale > 0)
estimate_thresholds(est, escale, lop, hip, mask) ==
    IF Lt(Zero, escale) /\ StructureSize(escale) = 0
    THEN [err |-> "structure must not be empty", lo |-> NaN, hi |-> NaN]
    ELSE IF Lt(Zero, escale) THEN Percentiles(Ravel(est, mask, 1), lop, hip)
    ELSE Percentiles(Ravel(est, Positions(est), 1), lop, hip)

RescaleBy(fl, l, d) ==
    [i \in 1..Height(fl) |-> [j \in 1..Width(fl) |-> Clip01(Div(Sub(fl[i][j], l), d))]]

\* flat -= lo; flat /= hi - lo; flat = np.clip(flat, 0, 1)
Rescale(fl, l, h) == RescaleBy(fl, l, Sub(h, l))


(***************************************************************************)
(* Inputs: the decoded page (main: uint8 gray levels divided by 255.0) and *)
(* the parsed command line.                                                *)
(***************************************************************************)
MaxGray == 3

Grays == {51 * k : k \in 1..MaxGray}

RawShapes == {<<2, 2>>, <<3, 1>>}

RawImages == UNION {Arrays(s[1], s[2], {Q(g, 255) : g \in Grays}) : s \in RawShapes}

Cfg(nocheck, threshold, zoom, escale, bignore, maxskew, skewsteps) ==
    [nocheck |-> nocheck, threshold |-> threshold, zoom |-> zoom, escale |-> escale,
     bignore |-> bignore, perc |-> <<80, 1>>, range |-> 20, maxskew |-> maxskew,
     lo |-> <<5, 1>>, hi |-> <<90, 1>>, skewsteps |-> skewsteps]

Configs ==
    { Cfg(FALSE, <<-1, 1>>, <<1, 2>>, <<1, 1>>, <<1, 10>>, <<1, 1>>, 1),
      Cfg(TRUE, <<1, 2>>, <<1, 1>>, <<0, 1>>, <<2, 5>>, <<0, 1>>, 8),
      Cfg(FALSE, <<0, 1>>, <<3, 4>>, <<1, 100>>, <<1, 10>>, <<1, 2>>, 2),
      Cfg(FALSE, <<-1, 1>>, <<7, 10>>, <<1, 1>>, <<2, 5>>, <<1, 4>>, 1),
      Cfg(TRUE, <<-1, 1>>, <<1, 1>>, <<-1, 2>>, <<1, 10>>, <<1, 1>>, 1) }

NoArgs == Cfg(FALSE, Zero, One, Zero, Zero, Zero, 0)

\* the parser's defaults: default_args = parser.parse_args(["___.jpg"])
default_args == Cfg(FALSE, <<-1, 1>>, <<1, 2>>, <<1, 1>>, <<1, 10>>, <<2, 1>>, 8)

\* the values of the module: debug_nlbin = False
ModuleGlobals == [debug_nlbin |-> FALSE, default_args |-> default_args]

\* values of the up-sampled background m (the spline of zoom overshoots)
BgLevels == {<<1, 2>>, <<3, 2>>}

\* c extended to the shape sh
Pad(c, sh) ==
    [i \in 1..sh[1] |-> [j \in 1..sh[2] |->
        IF i <= Height(c) /\ j <= Width(c) THEN c[i][j] ELSE One]]

BackgroundsOf(h, w, sh) ==
    {Pad(c, sh) : c \in Arrays(Min2(h, sh[1]), Min2(w, sh[2]), BgLevels)}

\* the backgrounds m of the shape zoom gives; the samples outside the
\* region common with the image are never read
Backgrounds(im, z) == BackgroundsOf(Height(im), Width(im), BackgroundShape(im, z))

Resamplings == 1..2

IsConstant(a) == Cardinality(Samples(a)) = 1

\* the dilated mask (none is computed unless escale > 0, and the dilation
\* raises for an empty structuring element): empty only if the cropped region is constant (no
\* variance anywhere); on arrays shorter than half the structuring element
\* a non-empty mask is dilated to the whole region
Masks(est, e) ==
    IF ~Lt(Zero, e) \/ StructureSize(e) = 0 THEN {Positions(est)}
    ELSE (IF IsConstant(est) THEN {{}} ELSE {})
         \cup (IF StructureSize(e) >= 2 * Max2(Height(est), Width(est))
               THEN {Positions(est)}
               ELSE SUBSET Positions(est) \ {{}})

\* what the conversion of a NaN to uint8 gives is not defined
NaNCasts == {0, 255}

(***************************************************************************)
(* check_page applied to a page.                                           *)
(***************************************************************************)
InitCheck ==
    /\ page \in Pages
    /\ outcome = "pending"
    /\ pc = "idle"
    /\ raw = <<>> /\ args = NoArgs /\ image = <<>> /\ flat = <<>>
    /\ estimates = <<>> /\ angle = NaN /\ deskewed = <<>> /\ lo = NaN /\ hi = NaN
    /\ ret = <<>> /\ result = <<>> /\ err = "none" /\ raised = 0 /\ calls = <<>>
    /\ globals = ModuleGlobals /\ heap = <<>> /\ inv = <<>> /\ prim = <<>>

CheckPage ==
    /\ outcome = "pending"
    /\ outcome' = check_page(page)
    /\ UNCHANGED <<page, pc, raw, args, image, flat, estimates, angle, deskewed,
                   lo, hi, ret, result, err, raised, calls>>
    /\ UNCHANGED parVars

NextCheck == CheckPage

SpecCheck == InitCheck /\ [][NextCheck]_vars

(***************************************************************************)
(* main: parse the arguments, load the page, run nlbin, write the result.  *)
(* flat is the result of estimate_local_whitelevel, deskewed the flat that *)
(* estimate_skew returns, ret the value nlbin returns.                     *)
(***************************************************************************)
Init ==
    /\ page = NoPage
    /\ outcome = "idle"
    /\ pc = "main"
    /\ raw \in RawImages
    /\ args \in Configs
    /\ image = <<>> /\ flat = <<>>
    /\ estimates = <<>> /\ angle = NaN /\ deskewed = <<>> /\ lo = NaN /\ hi = NaN
    /\ ret = <<>> /\ result = <<>> /\ err = "none" /\ raised = 0 /\ calls = <<>>
    /\ globals = ModuleGlobals /\ heap = <<>> /\ inv = <<>> /\ prim = <<>>

\* an exception leaves nlbin and main: nothing catches it
Raise(msg) ==
    /\ pc' = "raised"
    /\ err' = msg
    /\ raised' = raised + 1

\* main calls nlbin(image, args); nlbin: image = normalize_raw_image(raw)
Normalize ==
    /\ pc = "main"
    /\ calls' = calls \o <<"nlbin", "normalize_raw_image">>
    /\ \E r \in {normalize_raw_image(raw)} :
          IF r.err # "none"
          THEN Raise(r.err) /\ UNCHANGED image
          ELSE pc' = "flatten" /\ image' = r.image /\ UNCHANGED <<err, raised>>
    /\ UNCHANGED <<page, outcome, raw, args, flat, estimates, angle, deskewed,
                   lo, hi, ret, result>>
    /\ UNCHANGED parVars

\* nlbin: flat = estimate_local_whitelevel(image, zoom, perc, range, debug)
Flatten ==
    /\ pc = "flatten"
    /\ calls' = calls \o <<"estimate_local_whitelevel">>
    /\ \E sh \in {BackgroundShape(image, args.zoom)} :
          IF sh[1] = 0 \/ sh[2] = 0
          THEN Raise("zero-size array") /\ UNCHANGED flat
          ELSE /\ \E m \in BackgroundsOf(Height(image), Width(image), sh) :
                     flat' = estimate_local_whitelevel(image, m)
               /\ pc' = "deskew"
               /\ UNCHANGED <<err, raised>>
    /\ UNCHANGED <<page, outcome, raw, args, image, estimates, angle, deskewed,
                   lo, hi, ret, result>>
    /\ UNCHANGED parVars

\* nlbin: flat, angle = estimate_skew(flat, bignore, maxskew, skewsteps)
Deskew ==
    /\ pc = "deskew"
    /\ calls' = calls \o <<"estimate_skew">>
    /\ \E f2 \in {SubMin(Invert(flat))} :
       \E est \in {Crop(f2, args.bignore)} :
       \E angles \in {SkewAngles(args.maxskew, args.skewsteps)} :
       \E ks \in [1..Len(angles) -> Resamplings] :
       \E es \in {SkewEstimates(est, angles, ks)} :
       \E a \in {estimate_skew_angle(es)} :
       \E kf \in Resamplings :
          /\ estimates' = es
          /\ angle' = a
          /\ deskewed' = Invert(rotate(f2, a, kf))
    /\ pc' = "thresholds"
    /\ UNCHANGED <<page, outcome, raw, args, image, flat, lo, hi, ret, result,
                   err, raised>>
    /\ UNCHANGED parVars

\* nlbin: lo, hi = estimate_thresholds(flat, bignore, escale, lo, hi, debug)
Thresholds ==
    /\ pc = "thresholds"
    /\ calls' = calls \o <<"estimate_thresholds">>
    /\ \E est \in {Crop(deskewed, args.bignore)} :
       \E mask \in Masks(est, args.escale) :
       \E r \in {estimate_thresholds(est, args.escale, args.lo, args.hi, mask)} :
          IF r.err # "none"
          THEN Raise(r.err) /\ UNCHANGED <<lo, hi>>
          ELSE /\ lo' = r.lo /\ hi' = r.hi
               /\ pc' = "rescale"
               /\ UNCHANGED <<err, raised>>
    /\ UNCHANGED <<page, outcome, raw, args, image, flat, estimates, angle,
                   deskewed, ret, result>>
    /\ UNCHANGED parVars

\* nlbin: flat -= lo; flat /= hi - lo; flat = np.clip(flat, 0, 1); return flat
NlbinReturn ==
    /\ pc = "rescale"
    /\ ret' = <<Rescale(deskewed, lo, hi)>>
    /\ pc' = "write"
    /\ UNCHANGED <<page, outcome, raw, args, image, flat, estimates, angle,
                   deskewed, lo, hi, result, err, raised, calls>>
    /\ UNCHANGED parVars

\* np.array(x * 255, dtype=np.uint8) of one sample; n is what a NaN becomes
Cast8(x, n) == IF x = NaN THEN n ELSE Trunc(Mul(x, <<255, 1>>)) % 256

\* np.array(result > threshold, dtype=np.uint8) * 255
Binarized(a, t) ==
    [i \in 1..Height(a) |-> [j \in 1..Width(a) |-> IF Lt(t, a[i][j]) THEN 255 ELSE 0]]

\* np.array(result * 255, dtype=np.uint8)
Scaled8(a, n) == [i \in 1..Height(a) |-> [j \in 1..Width(a) |-> Cast8(a[i][j], n)]]

\* main: threshold or scale the result of nlbin to uint8 and save it
MainWrite ==
    /\ pc = "write"
    /\ IF Le(Zero, args.threshold)
       THEN result' = Binarized(ret[1], args.threshold)
       ELSE \E n \in NaNCasts : result' = Scaled8(ret[1], n)
    /\ pc' = "done"
    /\ UNCHANGED <<page, outcome, raw, args, image, flat, estimates, angle,
                   deskewed, lo, hi, ret, err, raised, calls>>
    /\ UNCHANGED parVars

Next ==
    \/ Normalize
    \/ Flatten
    \/ Deskew
    \/ Thresholds
    \/ NlbinReturn
    \/ MainWrite

Spec == Init /\ [][Next]_vars

(***************************************************************************)
(* Several invocations of nlbin in one process, interleaved statement by   *)
(* statement.  Arrays are objects of a heap: a statement either allocates  *)
(* a new array (raw - np.amin(raw), np.clip, rotate) or updates one in     *)
(* place (-=, /=).  inv[t] holds the position of invocation t, the page it *)
(* was given, and for the stage it last called the object passed in (arg)  *)
(* and the value that object had at the call (snap).  The ndimage          *)
(* primitives are pure functions: prim fixes the one used by the run.      *)
(***************************************************************************)
Invocations == 1..2

Sites == {"image", "flat", "skew", "deskewed", "result"}

\* the array the caller of invocation t passes as raw
Page(t) == <<t, "raw">>

\* one array for all the invocations at each allocation site
Buffer_shared(t, site) == <<1, site>>

\* the array invocation t allocates at a site
Buffer(t, site) == <<t, site>>

\* normalize_raw_image working in place: raw -= np.amin(raw)
ShiftedRaw_inplace(t) == Page(t)

\* the array that image = raw - np.amin(raw) creates
ShiftedRaw(t) == Buffer(t, "image")

Objects == {Page(t) : t \in Invocations} \cup {Buffer(t, s) : t \in Invocations, s \in Sites}

ParPages == Arrays(2, 1, {Q(g, 255) : g \in Grays})

\* the configurations for which the primitives are determined by prim:
\* no resizing by zoom, no mask
ParConfigs == {c \in Configs : c.zoom = One /\ ~Lt(Zero, c.escale)}

\* the background m that zoom and the percentile filters give
Background(im, bg) == [i \in 1..Height(im) |-> [j \in 1..Width(im) |-> bg]]

Resampled(angles, k) == [i \in 1..Len(angles) |-> k]

\* angle of estimate_skew for the shifted inverted image f2
SkewAngleOf(f2, c, k) ==
    estimate_skew_angle(SkewEstimates(Crop(f2, c.bignore),
                                      SkewAngles(c.maxskew, c.skewsteps),
                                      Resampled(SkewAngles(c.maxskew, c.skewsteps), k)))

ThresholdsOf(d, c) ==
    estimate_thresholds(Crop(d, c.bignore), c.escale, c.lo, c.hi,
                        Positions(Crop(d, c.bignore)))

ClipAll(a) == [i \in 1..Height(a) |-> [j \in 1..Width(a) |-> Clip01(a[i][j])]]

\* nlbin run alone on the page r with the configuration c and the
\* primitives p ends with out: the error raised, or the image returned
nlbin_alone(out, r, c, p) ==
    \E n \in {normalize_raw_image(r)} :
        IF n.err # "none" THEN out = n
        ELSE \E fl \in {estimate_local_whitelevel(n.image, Background(n.image, p.bg))} :
             \E f2 \in {SubMin(Invert(fl))} :
             \E a \in {SkewAngleOf(f2, c, p.k)} :
             \E d \in {Invert(rotate(f2, a, p.k))} :
             \E th \in {ThresholdsOf(d, c)} :
                 IF th.err # "none" THEN out = Raised(th.err)
                 ELSE out = Returned(Rescale(d, th.lo, th.hi))

InitPar ==
    /\ page = NoPage /\ outcome = "idle" /\ pc = "idle"
    /\ raw = <<>> /\ args = NoArgs /\ image = <<>> /\ flat = <<>>
    /\ estimates = <<>> /\ angle = NaN /\ deskewed = <<>> /\ lo = NaN /\ hi = NaN
    /\ ret = <<>> /\ result = <<>> /\ err = "none" /\ raised = 0 /\ calls = <<>>
    /\ globals = ModuleGlobals
    /\ prim \in [bg : BgLevels, k : Resamplings]
    /\ \E pages \in [Invocations -> ParPages], c \in ParConfigs :
          /\ heap = [o \in Objects |->
                        IF o[2] = "raw" /\ o = Page(o[1]) THEN pages[o[1]] ELSE <<>>]
          /\ inv = [t \in Invocations |->
                       [pc |-> "nlbin", page |-> pages[t], args |-> c,
                        arg |-> Page(t), snap |-> pages[t],
                        angle |-> NaN, lo |-> NaN, hi |-> NaN, err |-> "none"]]

\* normalize_raw_image(raw): image = raw - np.amin(raw)
ParShift(t) ==
    /\ inv[t].pc = "nlbin"
    /\ heap' = [heap EXCEPT ![ShiftedRaw(t)] = SubAll(heap[Page(t)], amin(heap[Page(t)]))]
    /\ inv' = [inv EXCEPT ![t].pc = "normalize",
                          ![t].arg = Page(t), ![t].snap = heap[Page(t)]]
    /\ UNCHANGED <<globals, prim, mainVars>>

\* normalize_raw_image: raise ValueError("image is empty"), or
\* image /= np.amax(image); return image
ParNormalize(t) ==
    /\ inv[t].pc = "normalize"
    /\ \E im \in {heap[ShiftedRaw(t)]} :
          IF amax(im) # NaN /\ amax(im) = amin(im)
          THEN /\ inv' = [inv EXCEPT ![t].pc = "raised", ![t].err = "image is empty"]
               /\ UNCHANGED heap
          ELSE /\ heap' = [heap EXCEPT ![ShiftedRaw(t)] = DivAll(im, amax(im))]
               /\ inv' = [inv EXCEPT ![t].pc = "whitelevel"]
    /\ UNCHANGED <<globals, prim, mainVars>>

\* estimate_local_whitelevel(image, ...): flat = np.clip(image - m + 1, 0, 1)
ParFlatten(t) ==
    /\ inv[t].pc = "whitelevel"
    /\ \E im \in {heap[ShiftedRaw(t)]} :
          /\ heap' = [heap EXCEPT ![Buffer(t, "flat")] =
                         estimate_local_whitelevel(im, Background(im, prim.bg))]
          /\ inv' = [inv EXCEPT ![t].pc = "skew", ![t].arg = ShiftedRaw(t), ![t].snap = im]
    /\ UNCHANGED <<globals, prim, mainVars>>

\* estimate_skew(flat, ...): flat = np.amax(flat) - flat
ParInvert(t) ==
    /\ inv[t].pc = "skew"
    /\ heap' = [heap EXCEPT ![Buffer(t, "skew")] = Invert(heap[Buffer(t, "flat")])]
    /\ inv' = [inv EXCEPT ![t].pc = "submin", ![t].arg = Buffer(t, "flat"),
                          ![t].snap = heap[Buffer(t, "flat")]]
    /\ UNCHANGED <<globals, prim, mainVars>>

\* estimate_skew: flat -= np.amin(flat)
ParSubMin(t) ==
    /\ inv[t].pc = "submin"
    /\ heap' = [heap EXCEPT ![Buffer(t, "skew")] = SubMin(heap[Buffer(t, "skew")])]
    /\ inv' = [inv EXCEPT ![t].pc = "rotate"]
    /\ UNCHANGED <<globals, prim, mainVars>>

\* estimate_skew: angle = estimate_skew_angle(est, ...); flat = rotate(flat,
\* angle); flat = np.amax(flat) - flat; return flat, angle
ParRotate(t) ==
    /\ inv[t].pc = "rotate"
    /\ \E a \in {SkewAngleOf(heap[Buffer(t, "skew")], inv[t].args, prim.k)} :
          /\ heap' = [heap EXCEPT ![Buffer(t, "deskewed")] =
                         Invert(rotate(heap[Buffer(t, "skew")], a, prim.k))]
          /\ inv' = [inv EXCEPT ![t].pc = "thresholds", ![t].angle = a]
    /\ UNCHANGED <<globals, prim, mainVars>>

\* lo, hi = estimate_thresholds(flat, ...)
ParThresholds(t) ==
    /\ inv[t].pc = "thresholds"
    /\ \E d \in {heap[Buffer(t, "deskewed")]} :
       \E r \in {ThresholdsOf(d, inv[t].args)} :
          IF r.err # "none"
          THEN inv' = [inv EXCEPT ![t].pc = "raised", ![t].err = r.err,
                                  ![t].arg = Buffer(t, "deskewed"), ![t].snap = d]
          ELSE inv' = [inv EXCEPT ![t].pc = "sublo", ![t].lo = r.lo, ![t].hi = r.hi,
                                  ![t].arg = Buffer(t, "deskewed"), ![t].snap = d]
    /\ UNCHANGED <<globals, heap, prim, mainVars>>

\* nlbin: flat -= lo
ParSubLo(t) ==
    /\ inv[t].pc = "sublo"
    /\ heap' = [heap EXCEPT ![Buffer(t, "deskewed")] =
                   SubAll(heap[Buffer(t, "deskewed")], inv[t].lo)]
    /\ inv' = [inv EXCEPT ![t].pc = "divide", ![t].arg = Page(t),
                          ![t].snap = heap[Page(t)]]
    /\ UNCHANGED <<globals, prim, mainVars>>

\* nlbin: flat /= hi - lo
ParDivide(t) ==
    /\ inv[t].pc = "divide"
    /\ heap' = [heap EXCEPT ![Buffer(t, "deskewed")] =
                   DivAll(heap[Buffer(t, "deskewed")], Sub(inv[t].hi, inv[t].lo))]
    /\ inv' = [inv EXCEPT ![t].pc = "clip"]
    /\ UNCHANGED <<globals, prim, mainVars>>

\* nlbin: flat = np.clip(flat, 0, 1); return flat
ParReturn(t) ==
    /\ inv[t].pc = "clip"
    /\ heap' = [heap EXCEPT ![Buffer(t, "result")] = ClipAll(heap[Buffer(t, "deskewed")])]
    /\ inv' = [inv EXCEPT ![t].pc = "done"]
    /\ UNCHANGED <<globals, prim, mainVars>>

NextPar ==
    \/ \E t \in Invocations : ParShift(t)
    \/ \E t \in Invocations : ParNormalize(t)
    \/ \E t \in Invocations : ParFlatten(t)
    \/ \E t \in Invocations : ParInvert(t)
    \/ \E t \in Invocations : ParSubMin(t)
    \/ \E t \in Invocations : ParRotate(t)
    \/ \E t \in Invocations : ParThresholds(t)
    \/ \E t \in Invocations : ParSubLo(t)
    \/ \E t \in Invocations : ParDivide(t)
    \/ \E t \in Invocations : ParReturn(t)

SpecPar == InitPar /\ [][NextPar]_vars


(***************************************************************************)
(* Properties of check_page (checked under SpecCheck).                     *)
(***************************************************************************)
Checked == outcome \notin {"pending", "idle"}

\* C1: for a 2-D page whose mean is not below its median, check_page raises
\* one of the size errors exactly when the height or the width is below 600
\* or above 10000, and returns without error when both are in [600, 10000].
C1_SizeCheck ==
    (Checked /\ Len(page.shape) = 2 /\ ~MeanBelowMedian(page.hist)) =>
        /\ outcome \in SizeErrors <=>
              \/ page.shape[1] < 600 \/ page.shape[1] > 10000
              \/ page.shape[2] < 600 \/ page.shape[2] > 10000
        /\ (page.shape[1] \in 600..10000 /\ page.shape[2] \in 600..10000)
              => outcome = "none"

\* a 500x800 page that is not inverted was rejected for its size
C1_Rejected500x800 ==
    /\ Checked /\ page.shape = <<500, 800>> /\ ~MeanBelowMedian(page.hist)
    /\ outcome \in SizeErrors

\* C2 as stated: every array of more than two dimensions is rejected as a
\* color image.
C2_AnyHigherRank ==
    (Checked /\ Len(page.shape) > 2) => outcome = "input image is color image"

\* C2 amended: every array of exactly three dimensions is rejected as a color
\* image, whatever its samples and sizes are (the test comes before the
\* orientation and the size tests).
C2_ColorFirst ==
    (Checked /\ Len(page.shape) = 3) => outcome = "input image is color image"

\* a color page that is also inverted and too short was rejected as color
C2_ColorInvertedShort ==
    /\ Checked /\ Len(page.shape) = 3 /\ MeanBelowMedian(page.hist)
    /\ page.shape[1] < 600
    /\ outcome = "input image is color image"

\* C3: a 2-D page is rejected as inverted exactly when its mean is strictly
\* below its median; otherwise the size check decides.
C3_Orientation ==
    (Checked /\ Len(page.shape) = 2) =>
        /\ outcome = "image may be inverted" <=>
              2 * HistSum(page.hist) < Median2(page.hist) * HistSize(page.hist)
        /\ outcome # "image may be inverted" => outcome \in SizeErrors \cup {"none"}

\* a 2-D page whose mean equals its median passed the orientation check
C3_EqualPasses ==
    /\ Checked /\ Len(page.shape) = 2
    /\ 2 * HistSum(page.hist) = Median2(page.hist) * HistSize(page.hist)
    /\ page.hist[0] > 0 /\ page.hist[2] > 0
    /\ outcome = "none"

(***************************************************************************)
(* Properties of the pipeline (checked under Spec).                        *)
(***************************************************************************)
SameShape(a, b) == Height(a) = Height(b) /\ Width(a) = Width(b)

\* (raw - min(raw)) / (max(raw) - min(raw)) at every position
StretchedFrom(im, r, mn, mx) ==
    \A i \in 1..Height(r), j \in 1..Width(r) :
        im[i][j] = Div(Sub(r[i][j], mn), Sub(mx, mn))

\* C4: for a non-constant raw image normalize_raw_image returns an image of
\* the same shape, with minimum 0 and maximum 1, each sample being
\* (raw - min(raw)) / (max(raw) - min(raw)).
C4_Normalized ==
    /\ (pc \notin {"main", "idle"} /\ ~IsConstant(raw)) => image # <<>>
    /\ image # <<>> =>
          /\ SameShape(image, raw)
          /\ StretchedFrom(image, raw, amin(raw), amax(raw))
          /\ amin(image) = Zero
          /\ amax(image) = One

\* a raw image of three gray levels was normalized
C4_ThreeLevels ==
    /\ image # <<>>
    /\ Cardinality(Samples(raw)) = 3
    /\ \E x \in Samples(image) : Lt(Zero, x) /\ Lt(x, One)

\* C5: on a constant image nlbin ends with the error "image is empty" of
\* normalize_raw_image, raised once, and no later stage has run.
C5_EmptyImage ==
    (pc \notin {"main", "idle"} /\ IsConstant(raw)) =>
        /\ pc = "raised"
        /\ err = "image is empty"
        /\ raised = 1
        /\ calls = <<"nlbin", "normalize_raw_image">>
        /\ image = <<>> /\ flat = <<>> /\ estimates = <<>> /\ deskewed = <<>>
        /\ lo = NaN /\ hi = NaN /\ ret = <<>> /\ result = <<>>

\* a constant image was given to nlbin and the error has been raised
C5_Raised == IsConstant(raw) /\ pc = "raised" /\ err = "image is empty"

\* C6: every sample of the image estimate_local_whitelevel returns is in
\* [0, 1], whatever the background and its shape are.
C6_FlatInUnit == flat # <<>> => \A x \in Samples(flat) : InUnit(x)

\* a flat image clipped at both ends, from a background of another shape
C6_ClippedOtherShape ==
    /\ flat # <<>>
    /\ BackgroundShape(image, args.zoom) # <<Height(image), Width(image)>>
    /\ Zero \in Samples(flat) /\ One \in Samples(flat)

\* C7: every sample of the image nlbin returns is in [0, 1].
C7_ReturnInUnit == ret # <<>> => \A x \in Samples(ret[1]) : InUnit(x)

\* C8: nlbin returns the processed image and the angle estimate_skew selected.
C8_ReturnsAngle == ret # <<>> => Len(ret) = 2 /\ ret[2] = angle

\* C9: unless validation is disabled, check_page is applied to the page
\* before normalize_raw_image.
C9_CheckedFirst ==
    (pc \notin {"main", "idle"} /\ ~args.nocheck) =>
        \E i \in 1..Len(calls) :
            /\ calls[i] = "check_page"
            /\ \A j \in 1..Len(calls) : calls[j] = "normalize_raw_image" => i < j

MaxVariance(es) == AMaxOf({es[i][1] : i \in 1..Len(es)})

TiedAngles(es) == {es[i][2] : i \in {k \in 1..Len(es) : es[k][1] = MaxVariance(es)}}

\* C10 as stated: of the angles with the maximal variance the first in
\* ascending order is returned.
C10_FirstOfTies ==
    estimates # <<>> =>
        angle \in TiedAngles(estimates) /\ \A a \in TiedAngles(estimates) : Le(angle, a)

\* C10 amended: of the angles with the maximal variance the last in
\* ascending order (the greatest) is returned.
C10_LastOfTies ==
    estimates # <<>> =>
        angle \in TiedAngles(estimates) /\ \A a \in TiedAngles(estimates) : Le(a, angle)

\* several candidate angles gave the maximal variance, not all the others
C10_Tie ==
    /\ estimates # <<>>
    /\ Cardinality(TiedAngles(estimates)) > 1
    /\ Cardinality(TiedAngles(estimates)) < Len(estimates)

CandidateAngles(es) == {es[i][2] : i \in 1..Len(es)}

\* C11: estimate_skew searches exactly 2*maxskew*skewsteps + 1 candidate
\* angles, linearly spaced from -maxskew to +maxskew with both endpoints
\* included and adjacent candidates 1/skewsteps apart, and the angle it
\* returns is one of the candidates.
C11_CandidateAngles ==
    estimates # <<>> =>
        /\ <<Len(estimates), 1>> =
              Add(Mul(Mul(<<2, 1>>, args.maxskew), <<args.skewsteps, 1>>), One)
        /\ estimates[1][2] = Neg(args.maxskew)
        /\ estimates[Len(estimates)][2] = args.maxskew
        /\ \A i \in 1..(Len(estimates) - 1) :
              Sub(estimates[i + 1][2], estimates[i][2]) = Q(1, args.skewsteps)
        /\ angle \in CandidateAngles(estimates)

Region(a, b) ==
    ((Border(b, Height(a)) + 1)..(Height(a) - Border(b, Height(a))))
        \X ((Border(b, Width(a)) + 1)..(Width(a) - Border(b, Width(a))))

CountLt(a, R, x) == Cardinality({p \in R : Lt(a[p[1]][p[2]], x)})

CountLe(a, R, x) == Cardinality({p \in R : Le(a[p[1]][p[2]], x)})

\* the sample of rank k (from 0) among the samples of a at the positions R
OrderStat(a, R, k) ==
    CHOOSE x \in {a[p[1]][p[2]] : p \in R} : CountLt(a, R, x) <= k /\ k < CountLe(a, R, x)

InterpolatedRank(a, R, idx, i) ==
    IF <<i, 1>> = idx THEN OrderStat(a, R, i)
    ELSE Add(OrderStat(a, R, i),
             Mul(Sub(idx, <<i, 1>>), Sub(OrderStat(a, R, i + 1), OrderStat(a, R, i))))

\* the per-th percentile of the samples of a at the positions R
PercentileOver(a, R, per) ==
    InterpolatedRank(a, R, Mul(Div(per, <<100, 1>>), <<Cardinality(R) - 1, 1>>),
                     Trunc(Mul(Div(per, <<100, 1>>), <<Cardinality(R) - 1, 1>>)))

\* the percentile at the fractional rank idx of na samples u followed by
\* samples v
TwoLevelRank(u, v, na, idx) ==
    IF Le(idx, <<na - 1, 1>>) THEN u
    ELSE IF Le(<<na, 1>>, idx) THEN v
    ELSE Add(u, Mul(Sub(idx, <<na - 1, 1>>), Sub(v, u)))

TwoLevelPercentile(a, R, u, v, per) ==
    TwoLevelRank(u, v, CountLe(a, R, u), Mul(Div(per, <<100, 1>>), <<Cardinality(R) - 1, 1>>))

ThresholdsDone == deskewed # <<>> /\ pc # "thresholds"

\* C13: with escale <= 0 estimate_thresholds returns, without error, the
\* lo-th and the hi-th percentile of all samples of the region left after
\* removing int(bignore * height) rows and int(bignore * width) columns at
\* each border; on a region of two levels these are the percentiles of the
\* two-valued distribution.
C13_Unmasked ==
    (ThresholdsDone /\ ~Lt(Zero, args.escale)) =>
        /\ pc # "raised"
        /\ lo = PercentileOver(deskewed, Region(deskewed, args.bignore), args.lo)
        /\ hi = PercentileOver(deskewed, Region(deskewed, args.bignore), args.hi)
        /\ \A u, v \in Samples(deskewed) :
              (Lt(u, v) /\ {deskewed[p[1]][p[2]] : p \in Region(deskewed, args.bignore)} = {u, v})
                 => /\ lo = TwoLevelPercentile(deskewed, Region(deskewed, args.bignore), u, v, args.lo)
                    /\ hi = TwoLevelPercentile(deskewed, Region(deskewed, args.bignore), u, v, args.hi)

\* thresholds were taken with a negative escale from a region of two levels,
\* and lo was interpolated between the two levels
C13_TwoLevels ==
    /\ ThresholdsDone /\ Lt(args.escale, Zero)
    /\ Cardinality({deskewed[p[1]][p[2]] : p \in Region(deskewed, args.bignore)}) = 2
    /\ lo \notin Samples(deskewed) /\ Lt(lo, hi)

\* C14: with escale > 0 estimate_thresholds returns a (lo, hi) pair and
\* does not end in an error, whatever the mask has selected (few samples, or
\* none when the cropped region is constant).
C14_FailsOpen ==
    (ThresholdsDone /\ Lt(Zero, args.escale)) => pc # "raised" /\ err = "none"

(***************************************************************************)
(* Properties of interleaved invocations (checked under SpecPar).          *)
(***************************************************************************)
ParEnded(t) == inv[t].pc \in {"done", "raised"}

\* what invocation t has returned or raised
Outcome(t) ==
    IF inv[t].pc = "raised" THEN Raised(inv[t].err)
    ELSE Returned(heap[Buffer(t, "result")])

SameAsAlone ==
    \A t \in Invocations :
        ParEnded(t) => nlbin_alone(Outcome(t), inv[t].page, inv[t].args, prim)

\* a step leaves alone the arrays of the invocations that did not take it
OthersKept ==
    \A t \in Invocations :
        inv'[t] = inv[t] =>
            /\ heap'[Page(t)] = heap[Page(t)]
            /\ \A s \in Sites : heap'[Buffer(t, s)] = heap[Buffer(t, s)]

\* C15: invocations of nlbin interleaved in any order share no mutable
\* state: the values of the module (debug_nlbin, default_args) are never
\* written, no step writes an array of another invocation, and every
\* invocation ends with the result it gives when run alone.
C15_Isolated ==
    /\ [](globals = ModuleGlobals /\ SameAsAlone)
    /\ [][OthersKept /\ globals' = globals]_vars

\* two invocations on different pages are both between in-place updates of
\* their arrays
C15_BothInPlace ==
    /\ inv[1].page # inv[2].page
    /\ inv[1].pc = "divide" /\ inv[2].pc = "rotate"
    /\ heap[Buffer(1, "deskewed")] # <<>> /\ heap[Buffer(2, "skew")] # <<>>

InputsKept ==
    \A t \in Invocations :
        /\ heap[Page(t)] = inv[t].page
        /\ heap[inv[t].arg] = inv[t].snap

ConfigKept == \A t \in Invocations : inv'[t].args = inv[t].args

\* C16: no stage changes its inputs: the array given to nlbin holds the
\* values of the page at every moment, the array passed to the stage in
\* progress or last returned (normalize_raw_image, estimate_local_whitelevel,
\* estimate_skew, estimate_thresholds) holds the values it had at the call,
\* also after a raise, and the configuration is never written.
C16_NoSideEffects ==
    /\ []InputsKept
    /\ [][ConfigKept]_vars

\* one invocation has raised and the other has returned an image that
\* differs from its page, after the in-place updates
C16_RaisedAndReturned ==
    /\ inv[1].pc = "raised" /\ inv[1].err = "image is empty"
    /\ inv[2].pc = "done"
    /\ heap[Buffer(2, "result")] # heap[Page(2)]
    /\ heap[Buffer(2, "deskewed")] # heap[Buffer(2, "result")]

(***************************************************************************)
(* Properties of estimate_skew (checked under Spec).                       *)
(***************************************************************************)
\* C17: the image estimate_skew returns has minimum 0 and no negative
\* sample; when the selected angle is 0 it is flat - min(flat) at every
\* position, so it equals the image passed in only when min(flat) is 0.
C17_ShiftedByMin ==
    deskewed # <<>> =>
        /\ amin(deskewed) = Zero
        /\ \A x \in Samples(deskewed) : Le(Zero, x)
        /\ angle = Zero =>
              /\ SameShape(deskewed, flat)
              /\ \A i \in 1..Height(flat), j \in 1..Width(flat) :
                    deskewed[i][j] = Sub(flat[i][j], amin(flat))
        /\ deskewed = flat => amin(flat) = Zero

\* with maxskew = 0 the angle 0 was selected for a flat image of positive
\* minimum, and the image returned differs from it
C17_NotUnchanged ==
    /\ deskewed # <<>>
    /\ args.maxskew = Zero /\ angle = Zero
    /\ Lt(Zero, amin(flat))
    /\ deskewed # flat

====
